---- MODULE Spec2Model ----
(***************************************************************************)
(* The restaurant sales dashboard of src/app.py as a state machine.        *)
(*                                                                         *)
(* The script runs top to bottom once per render pass; every user          *)
(* interaction with a widget triggers one full pass.  The state is what    *)
(* survives between passes (the CSV source, the st.cache_data cache, the   *)
(* widget state of the session) together with what the last pass computed  *)
(* and displayed.                                                          *)
(*                                                                         *)
(* Money is counted in whole cents, so sums are exact.  The ISO week       *)
(* column (line 32) is derived by load_data but read by nothing, and is    *)
(* not modelled.                                                           *)
(***************************************************************************)
EXTENDS Integers, Sequences, FiniteSets, TLC

VARIABLES
    source,             \* rows of restaurant_data.csv, as text fields
    cache,              \* st.cache_data entry of load_data
    reads,              \* how many times pd.read_csv has run
    session,            \* "new" before the first pass, then "live"
    df,                 \* module-level df of the last pass
    selected_category,  \* state of the category multiselect
    selected_weekday,   \* state of the weekday multiselect
    month_2022,         \* session state of key "month_2022"
    month_2023,         \* session state of key "month_2023"
    filtered_df,        \* filtered_df of the last pass
    page                \* what the last pass computed and displayed

vars == <<source, cache, reads, session, df, selected_category,
          selected_weekday, month_2022, month_2023, filtered_df, page>>

----------------------------------------------------------------------------
(* Bounds of the explored datasets *)

\* customers 1..NumBulk each have a fixed block of order lines
NumBulk == 9
\* the two free order lines cost 10, 20, ..., 10 * MaxTotal
MaxTotal == 2

(* Program constants *)

\* .head(10)
TopN == 10
\* the two year panels
Year2022 == 2022
Year2023 == 2023

AllMonths == "All Months"

MONTH_MAP ==
    <<"January", "February", "March", "April", "May", "June", "July",
      "August", "September", "October", "November", "December">>

----------------------------------------------------------------------------
(* Helpers: sequences, sums, orders *)

Range(s) == {s[i] : i \in 1..Len(s)}

Min(a, b) == IF a <= b THEN a ELSE b

\* df[col].sum(): the sum of column col over the rows of a sequence
SumOver(s, col) ==
    LET S[i \in 0..Len(s)] == IF i = 0 THEN 0 ELSE S[i - 1] + s[i][col]
    IN  S[Len(s)]

\* the sum of column col over the rows whose column key is val
SumWhere(s, key, val, col) ==
    LET S[i \in 0..Len(s)] ==
            IF i = 0 THEN 0
            ELSE IF s[i][key] = val THEN S[i - 1] + s[i][col] ELSE S[i - 1]
    IN  S[Len(s)]

\* Python's order on the strings that occur as group keys
StrOrder == <<"Drinks", "Food", "Monday", "Rice", "Tea", "Tuesday">>

StrRank(x) == CHOOSE i \in 1..Len(StrOrder) : StrOrder[i] = x

StrLess(a, b) == StrRank(a) < StrRank(b)

IntLess(a, b) == a < b

\* order on calendar days <<y, m, d>>
DayLess(a, b) ==
    \/ a[1] < b[1]
    \/ a[1] = b[1] /\ a[2] < b[2]
    \/ a[1] = b[1] /\ a[2] = b[2] /\ a[3] < b[3]

\* order on (category, item) pairs
PairLess(a, b) ==
    \/ StrLess(a[1], b[1])
    \/ a[1] = b[1] /\ StrLess(a[2], b[2])

\* the order on the keys of one kind
Less(kind, a, b) ==
    CASE kind = "int" -> IntLess(a, b)
      [] kind = "str" -> StrLess(a, b)
      [] kind = "day" -> DayLess(a, b)
      [] kind = "pair" -> PairLess(a, b)

\* the elements of a finite set of keys as the ascending sequence
SortSet(S, kind) ==
    [i \in 1..Cardinality(S) |->
        CHOOSE x \in S : Cardinality({y \in S : Less(kind, y, x)}) = i - 1]

----------------------------------------------------------------------------
(* The calendar: pd.to_datetime and the .dt accessors *)

\* days before day doy (from 0, counted from 1 March) of year yoe of an era
\* of 400 years
day_of_era(yoe, doy) == yoe * 365 + yoe \div 4 - yoe \div 100 + doy

\* the day count since 1970-01-01 of day d of month mp (0 = March) of the
\* year y that starts in March
days_from_march(y, mp, d) ==
    (y \div 400) * 146097
        + day_of_era(y % 400, (153 * mp + 2) \div 5 + d - 1) - 719468

\* pd.to_datetime on a "YYYY-MM-DD" field: the day count since 1970-01-01
to_datetime(ymd) ==
    days_from_march(IF ymd[2] <= 2 THEN ymd[1] - 1 ELSE ymd[1],
                    IF ymd[2] > 2 THEN ymd[2] - 3 ELSE ymd[2] + 9,
                    ymd[3])

civil(y, m, d) == <<IF m <= 2 THEN y + 1 ELSE y, m, d>>

civil_of_month(y, doy, mp) ==
    civil(y, IF mp < 10 THEN mp + 3 ELSE mp - 9,
          doy - (153 * mp + 2) \div 5 + 1)

civil_of_day(y, doy) == civil_of_month(y, doy, (5 * doy + 2) \div 153)

civil_of_year(era, doe, yoe) ==
    civil_of_day(yoe + era * 400,
                 doe - (365 * yoe + yoe \div 4 - yoe \div 100))

civil_of_era(era, doe) ==
    civil_of_year(era, doe,
                  (doe - doe \div 1460 + doe \div 36524 - doe \div 146096)
                      \div 365)

\* .dt.date: the calendar day <<year, month, day>> of a day count
dt_date(z) == civil_of_era((z + 719468) \div 146097, (z + 719468) % 146097)

DAY_NAMES ==
    <<"Monday", "Tuesday", "Wednesday", "Thursday", "Friday", "Saturday",
      "Sunday">>

\* .dt.day_name(): 1970-01-01 was a Thursday
dt_day_name(z) == DAY_NAMES[((z + 3) % 7) + 1]

----------------------------------------------------------------------------
(* The datasets explored *)

Categories == {"Drinks", "Food"}

ItemOf(c) == IF c = "Drinks" THEN "Tea" ELSE "Rice"

\* a Monday and a Tuesday of 2022, a Monday of 2023 and a Tuesday of 2024
Dates ==
    <<  <<2022, 1, 3>>, <<2022, 2, 1>>, <<2023, 1, 2>>, <<2024, 1, 2>> >>

CsvRow(o, c, cat, q, t, date) ==
    [order_id |-> o, cust_id |-> c, category |-> cat, item |-> ItemOf(cat),
     quantity |-> q, order_total |-> t, order_date |-> date]

\* customer c placed c single-line orders of 10 each, all of one category
\* and on one day
BulkOf(c) ==
    [k \in 1..c |->
        CsvRow(100 * c + k, c, IF c % 2 = 1 THEN "Drinks" ELSE "Food", 1, 10,
               Dates[(c % Len(Dates)) + 1])]

RECURSIVE BulkRows(_)
BulkRows(c) == IF c = 0 THEN <<>> ELSE BulkRows(c - 1) \o BulkOf(c)

Bulk == BulkRows(NumBulk)

\* a first free order line, of a new customer: it costs 10, 15, ...
FreeA ==
    {CsvRow(1, NumBulk + 1, cat, 2, 5 + 5 * t, Dates[1]) :
        cat \in Categories, t \in 1..MaxTotal}

\* a second free order line: of the same order, of another order of the
\* same customer, or of one more customer
FreeB ==
    {CsvRow(oc[1], oc[2], "Food", 3, 10, Dates[3]) :
        oc \in {<<1, NumBulk + 1>>, <<2, NumBulk + 1>>, <<2, NumBulk + 2>>}}

Sources == {Bulk \o <<a, b>> : a \in FreeA, b \in FreeB}

----------------------------------------------------------------------------
(* load_data *)

\* a row with its date parsed to ts and the derived calendar columns
derive(r, ts) ==
    [order_id |-> r.order_id, cust_id |-> r.cust_id,
     category |-> r.category, item |-> r.item,
     quantity |-> r.quantity, order_total |-> r.order_total,
     order_date |-> ts, day |-> dt_date(ts),
     weekday |-> dt_day_name(ts), month |-> dt_date(ts)[2],
     year |-> dt_date(ts)[1]]

\* the body of load_data: parse the dates and derive the calendar columns
parse_csv(csv) ==
    [i \in 1..Len(csv) |-> derive(csv[i], to_datetime(csv[i].order_date))]

NoCache == [hit |-> FALSE, value |-> <<>>]

\* a miss: the value computed is stored and returned
cache_miss(v, n) ==
    [value |-> v, cache |-> [hit |-> TRUE, value |-> v], reads |-> n + 1]

\* a mutant of load_data: it reads and parses on every call
load_data_uncached(c, csv, n) == cache_miss(parse_csv(csv), n)

\* @st.cache_data load_data(): the cached value on a hit, else read, parse
\* and store
load_data(c, csv, n) ==
    IF c.hit
    THEN [value |-> c.value, cache |-> c, reads |-> n]
    ELSE cache_miss(parse_csv(csv), n)

----------------------------------------------------------------------------
(* Sidebar filters *)

\* df[col].unique() as a set
unique_category(d) == {d[i].category : i \in 1..Len(d)}

unique_weekday(d) == {d[i].weekday : i \in 1..Len(d)}

\* st.sidebar.multiselect(options, default = options): every option on the
\* first pass of a session, afterwards what the user left selected
multiselect(options, stored) ==
    IF session = "new" THEN options ELSE stored \cap options

\* a mutant of filtered_rows: the two masks joined with | instead of &
filtered_rows_or(d, sc, sw) ==
    SelectSeq(d, LAMBDA r : r.category \in sc \/ r.weekday \in sw)

\* df[category.isin(selected_category) & weekday.isin(selected_weekday)]
filtered_rows(d, sc, sw) ==
    SelectSeq(d, LAMBDA r : r.category \in sc /\ r.weekday \in sw)

----------------------------------------------------------------------------
(* KPI metrics *)

\* filtered_df['order_total'].sum()
total_revenue(f) == SumOver(f, "order_total")

\* int(filtered_df['quantity'].sum())
total_items(f) == SumOver(f, "quantity")

\* filtered_df['order_total'].mean(): the quotient num / den, and NaN over
\* no rows
avg_order_value(f) ==
    IF Len(f) = 0
    THEN [nan |-> TRUE, num |-> 0, den |-> 1]
    ELSE [nan |-> FALSE, num |-> SumOver(f, "order_total"), den |-> Len(f)]

----------------------------------------------------------------------------
(* groupby / agg / sort_values / head *)

\* f[f[key] == val]
rows_where(f, key, val) == SelectSeq(f, LAMBDA r : r[key] = val)

\* .agg(("order_id", "nunique")) over the rows whose column key is val
nunique_orders(f, key, val) ==
    Cardinality({f[i].order_id : i \in {j \in 1..Len(f) : f[j][key] = val}})

\* the largest value of column col in a non-empty set of records
max_of(S, col) == (CHOOSE r \in S : \A q \in S : q[col] <= r[col])[col]

\* sort_values(col, ascending = False) with the default kind "quicksort",
\* which is not stable: every arrangement of the records in non-increasing
\* order of col is a possible outcome
RECURSIVE sort_values_desc(_, _)
RECURSIVE sort_values_from(_, _, _)
sort_values_from(S, col, hi) ==
    UNION {{<<r>> \o rest : rest \in sort_values_desc(S \ {r}, col)} :
                r \in {q \in S : q[col] = hi}}

sort_values_desc(S, col) ==
    IF S = {} THEN {<<>>} ELSE sort_values_from(S, col, max_of(S, col))

\* .head(n)
head(t, n) == SubSeq(t, 1, Min(n, Len(t)))

reversed(t) == [i \in 1..Len(t) |-> t[Len(t) + 1 - i]]

cust_ids(f) == {f[i].cust_id : i \in 1..Len(f)}

\* groupby("cust_id").agg(total_spent = ("order_total", "sum"))
spent_groups(f) ==
    {[cust_id |-> c,
      total_spent |-> SumWhere(f, "cust_id", c, "order_total")] :
        c \in cust_ids(f)}

\* groupby("cust_id").agg(total_orders = ("order_id", "nunique"))
orders_groups(f) ==
    {[cust_id |-> c, total_orders |-> nunique_orders(f, "cust_id", c)] :
        c \in cust_ids(f)}

\* a mutant of customer_revenue: sorted ascending, ascending = False dropped
customer_revenue_ascending(f) ==
    {head(reversed(t), TopN) :
        t \in sort_values_desc(spent_groups(f), "total_spent")}

\* customer_revenue: the possible Top Spenders tables
customer_revenue(f) ==
    {head(t, TopN) : t \in sort_values_desc(spent_groups(f), "total_spent")}

\* customer_loyalty: the possible Most Loyal tables
customer_loyalty(f) ==
    {head(t, TopN) : t \in sort_values_desc(orders_groups(f), "total_orders")}

category_keys(f) == SortSet(unique_category(f), "str")

\* a mutant of revenue_by_category: it sums the quantity column
revenue_of_quantity(f, keys) ==
    [i \in 1..Len(keys) |->
        [category |-> keys[i],
         total_revenue |-> SumWhere(f, "category", keys[i], "quantity")]]

revenue_by_category(f, keys) ==
    [i \in 1..Len(keys) |->
        [category |-> keys[i],
         total_revenue |-> SumWhere(f, "category", keys[i], "order_total")]]

quantity_by_category(f, keys) ==
    [i \in 1..Len(keys) |->
        [category |-> keys[i],
         total_quantity |-> SumWhere(f, "category", keys[i], "quantity")]]

\* rev_cat: groupby("category") with the sum of order_total, in key order
rev_cat(f) == revenue_by_category(f, category_keys(f))

\* vol_cat: groupby("category") with the sum of quantity
vol_cat(f) == quantity_by_category(f, category_keys(f))

item_keys(f) ==
    SortSet({<<f[i].category, f[i].item>> : i \in 1..Len(f)}, "pair")

item_sums(f, keys) ==
    [i \in 1..Len(keys) |->
        [category |-> keys[i][1], item |-> keys[i][2],
         total_quantity |->
            SumWhere(rows_where(f, "category", keys[i][1]), "item",
                     keys[i][2], "quantity"),
         total_revenue |->
            SumWhere(rows_where(f, "category", keys[i][1]), "item",
                     keys[i][2], "order_total")]]

\* item_perf: groupby(["category", "item"]) with both sums
item_perf(f) == item_sums(f, item_keys(f))

orders_by(f, keys) ==
    [i \in 1..Len(keys) |->
        [weekday |-> keys[i],
         total_orders |-> nunique_orders(f, "weekday", keys[i])]]

\* weekday_order: groupby("weekday") with the number of distinct orders
weekday_order(f) == orders_by(f, SortSet(unique_weekday(f), "str"))

----------------------------------------------------------------------------
(* Daily revenue by year *)

\* filtered_df[filtered_df["year"] == 2022]
df_2022(f) == rows_where(f, "year", Year2022)

\* a mutant of df_2023: the 2022 mask pasted into the 2023 panel
df_2023_pasted(f) == rows_where(f, "year", Year2022)

\* filtered_df[filtered_df["year"] == 2023]
df_2023(f) == rows_where(f, "year", Year2023)

\* sorted(dy["month"].dropna().unique().tolist())
months_of(dy) == SortSet({dy[i].month : i \in 1..Len(dy)}, "int")

month_names(ms) == [i \in 1..Len(ms) |-> MONTH_MAP[ms[i]]]

\* a mutant of month_options: every month of MONTH_MAP is offered
month_options_all(dy) == <<AllMonths>> \o MONTH_MAP

\* ["All Months"] + [MONTH_MAP[m] for m in months]
month_options(dy) == <<AllMonths>> \o month_names(months_of(dy))

\* st.selectbox(label, options, key): the value the widget holds if it is
\* one of the options, else the first option.  A widget whose options
\* differ from those it was last shown with may be a new widget, which
\* starts at the first option.
selectbox(options, shown, stored) ==
    IF stored \in Range(options)
    THEN IF options = shown THEN {stored} ELSE {stored, options[1]}
    ELSE {options[1]}

\* [k for k, v in MONTH_MAP.items() if v == selected][0]
month_num(selected) ==
    CHOOSE k \in 1..Len(MONTH_MAP) : MONTH_MAP[k] = selected

\* the rows plotted: all of the year, or those of the selected month
plot_df(dy, selected) ==
    IF selected = AllMonths THEN dy
    ELSE rows_where(dy, "month", month_num(selected))

revenue_by(p, keys) ==
    [i \in 1..Len(keys) |->
        [day |-> keys[i],
         daily_revenue |->
            SumWhere(p, "day", keys[i], "order_total")]]

days_of(p) == SortSet({p[i].day : i \in 1..Len(p)}, "day")

\* groupby("day") with the sum of order_total, in ascending order of day
daily_rev(p) == revenue_by(p, days_of(p))

\* a year panel that the pass did not reach
NoPanel ==
    [rendered |-> FALSE, options |-> <<>>, held |-> "", selected |-> "",
     daily_rev |-> <<>>, info |-> FALSE, chart |-> FALSE]

\* what a panel shows for its table: st.info on an empty one, a line chart
\* otherwise.  held is what the key held when the selectbox was called.
panel_of(options, held, selected, t) ==
    [rendered |-> TRUE, options |-> options, held |-> held,
     selected |-> selected, daily_rev |-> t, info |-> (Len(t) = 0),
     chart |-> (Len(t) > 0)]

\* one year panel, given what its selectbox returned
year_panel(dy, options, held, selected) ==
    panel_of(options, held, selected, daily_rev(plot_df(dy, selected)))

\* one year panel for every value its selectbox may return
year_panels(dy, options, shown, stored) ==
    {year_panel(dy, options, stored, m) :
        m \in selectbox(options, shown, stored)}

----------------------------------------------------------------------------
(* One render pass: the script from top to bottom *)

NoPage ==
    [error |-> "", total_revenue |-> 0, total_items |-> 0,
     avg_order_value |-> [nan |-> FALSE, num |-> 0, den |-> 1],
     customer_revenue |-> <<>>, top_spender |-> <<>>,
     customer_loyalty |-> <<>>, most_loyal |-> <<>>,
     rev_cat |-> <<>>, vol_cat |-> <<>>, item_perf |-> <<>>,
     weekday_order |-> <<>>, panel_2022 |-> NoPanel, panel_2023 |-> NoPanel,
     finished |-> FALSE]

\* lines 72-87: the three metrics
kpi_page(f) ==
    [NoPage EXCEPT !.total_revenue = total_revenue(f),
                   !.total_items = total_items(f),
                   !.avg_order_value = avg_order_value(f)]

\* lines 207-326: the four tables behind the category, item and weekday
\* charts
charts(f) ==
    [rev_cat |-> rev_cat(f), vol_cat |-> vol_cat(f),
     item_perf |-> item_perf(f), weekday_order |-> weekday_order(f)]

\* the page of a pass, given its metrics k, the outcome cr and cl of the two
\* sorts, the tables ch and the two year panels.  .iloc[0] of an empty table
\* raises IndexError, which ends the pass there with the exception shown on
\* the page.
rest_of_page(k, cr, cl, ch, p22, p23) ==
    IF Len(cr) = 0
    THEN [k EXCEPT !.error = "IndexError", !.customer_revenue = cr]
    ELSE IF Len(cl) = 0
    THEN [k EXCEPT !.error = "IndexError", !.customer_revenue = cr,
                   !.top_spender = <<cr[1]>>, !.customer_loyalty = cl]
    ELSE [k EXCEPT !.customer_revenue = cr,
                   !.top_spender = <<cr[1]>>,
                   !.customer_loyalty = cl,
                   !.most_loyal = <<cl[1]>>,
                   !.rev_cat = ch.rev_cat,
                   !.vol_cat = ch.vol_cat,
                   !.item_perf = ch.item_perf,
                   !.weekday_order = ch.weekday_order,
                   !.panel_2022 = p22,
                   !.panel_2023 = p23,
                   !.finished = TRUE]

\* the pages a pass may end with, over the outcomes of the two sorts and of
\* the two selectboxes
pages(f, k, ch, P22, P23) ==
    {rest_of_page(k, cr, cl, ch, p22, p23) :
        cr \in customer_revenue(f), cl \in customer_loyalty(f),
        p22 \in P22, p23 \in P23}

\* the script below the filters, on the filtered rows f
below_filters(f, st22, st23) ==
    pages(f, kpi_page(f), charts(f),
          year_panels(df_2022(f), month_options(df_2022(f)),
                      page.panel_2022.options, st22),
          year_panels(df_2023(f), month_options(df_2023(f)),
                      page.panel_2023.options, st23))

\* what a pass leaves behind.  A selectbox that ran keeps its value under
\* its key; one the pass did not reach keeps what it held.
Finish(ld, sc, sw, f, pg, st22, st23) ==
    /\ cache' = ld.cache
    /\ reads' = ld.reads
    /\ df' = ld.value
    /\ session' = "live"
    /\ selected_category' = sc
    /\ selected_weekday' = sw
    /\ filtered_df' = f
    /\ page' = pg
    /\ month_2022' = IF pg.panel_2022.rendered
                     THEN pg.panel_2022.selected ELSE st22
    /\ month_2023' = IF pg.panel_2023.rendered
                     THEN pg.panel_2023.selected ELSE st23
    /\ UNCHANGED source

\* one pass of the script, started with the given widget state
Pass(sc0, sw0, st22, st23) ==
    \E ld \in {load_data(cache, source, reads)} :
    \E sc \in {multiselect(unique_category(ld.value), sc0)} :
    \E sw \in {multiselect(unique_weekday(ld.value), sw0)} :
    \E f \in {filtered_rows(ld.value, sc, sw)} :
    \E pg \in below_filters(f, st22, st23) :
        Finish(ld, sc, sw, f, pg, st22, st23)

----------------------------------------------------------------------------
(* The session *)

Init ==
    /\ source \in Sources
    /\ cache = NoCache
    /\ reads = 0
    /\ session = "new"
    /\ df = <<>>
    /\ selected_category = {}
    /\ selected_weekday = {}
    /\ month_2022 = AllMonths
    /\ month_2023 = AllMonths
    /\ filtered_df = <<>>
    /\ page = NoPage

\* the page is opened, or rerun with nothing changed
Rerun == Pass(selected_category, selected_weekday, month_2022, month_2023)

\* the user changes the category multiselect
SelectCategory ==
    /\ session = "live"
    /\ \E s \in SUBSET unique_category(df) :
        /\ s # selected_category
        /\ Pass(s, selected_weekday, month_2022, month_2023)

\* the user changes the weekday multiselect
SelectWeekday ==
    /\ session = "live"
    /\ \E s \in SUBSET unique_weekday(df) :
        /\ s # selected_weekday
        /\ Pass(selected_category, s, month_2022, month_2023)

\* the user picks a month in the 2022 selectbox
SelectMonth2022 ==
    /\ page.panel_2022.rendered
    /\ \E m \in Range(page.panel_2022.options) :
        /\ m # month_2022
        /\ Pass(selected_category, selected_weekday, m, month_2023)

\* the user picks a month in the 2023 selectbox
SelectMonth2023 ==
    /\ page.panel_2023.rendered
    /\ \E m \in Range(page.panel_2023.options) :
        /\ m # month_2023
        /\ Pass(selected_category, selected_weekday, month_2022, m)

Next ==
    \/ Rerun
    \/ SelectCategory
    \/ SelectWeekday
    \/ SelectMonth2022
    \/ SelectMonth2023

Spec == Init /\ [][Next]_vars

----------------------------------------------------------------------------
(* Properties *)

Live == session = "live"

\* what the properties expect, computed from the rows themselves
RowsOf(f, key, val) == {i \in 1..Len(f) : f[i][key] = val}

RECURSIVE SumRows(_, _)
SumRows(f, I) ==
    IF I = {} THEN 0
    ELSE LET i == CHOOSE j \in I : TRUE
         IN  f[i].order_total + SumRows(f, I \ {i})

Spent(f, c) == SumRows(f, RowsOf(f, "cust_id", c))

Orders(f, c) ==
    Cardinality({f[i].order_id : i \in RowsOf(f, "cust_id", c)})

Customers(f) == {f[i].cust_id : i \in 1..Len(f)}

RECURSIVE SumField(_, _)
SumField(t, I) ==
    IF I = {} THEN 0
    ELSE LET i == CHOOSE j \in I : TRUE
         IN  t[i] + SumField(t, I \ {i})

TablesEmpty ==
    /\ page.customer_revenue = <<>> /\ page.customer_loyalty = <<>>
    /\ page.rev_cat = <<>> /\ page.vol_cat = <<>> /\ page.item_perf = <<>>
    /\ page.weekday_order = <<>>
    /\ page.panel_2022.daily_rev = <<>> /\ page.panel_2023.daily_rev = <<>>

\* C1: every render pass, for every filter selection, runs to its end
\* without raising; reading the first row of Top Spenders and of Most
\* Loyal never fails.
C1_PassNeverRaises == Live => page.error = "" /\ page.finished

\* C2: over an empty Filtered View total revenue and total items are 0,
\* the average order value is a defined value (not NaN), no error is raised
\* and every aggregate table is rendered empty.
C2_EmptyViewIsDefined ==
    (Live /\ Len(filtered_df) = 0) =>
        /\ page.total_revenue = 0
        /\ page.total_items = 0
        /\ ~page.avg_order_value.nan
        /\ page.error = ""
        /\ page.finished
        /\ TablesEmpty

\* C3: Top Spenders has one record per customer of the view with the sum
\* of that customer's order_total, in non-increasing order of total_spent,
\* of length min(10, number of customers), and no customer left out spent
\* strictly more than one included.
C3_TopSpenders ==
    Live =>
        LET t == page.customer_revenue
            f == filtered_df
            inside == {t[i].cust_id : i \in 1..Len(t)}
        IN  /\ Len(t) = Min(TopN, Cardinality(Customers(f)))
            /\ inside \subseteq Customers(f)
            /\ Cardinality(inside) = Len(t)
            /\ \A i \in 1..Len(t) : t[i].total_spent = Spent(f, t[i].cust_id)
            /\ \A i \in 1..Len(t) - 1 : t[i].total_spent >= t[i + 1].total_spent
            /\ \A c \in Customers(f) \ inside :
                \A i \in 1..Len(t) : Spent(f, c) <= t[i].total_spent

\* a view of more than ten customers, where a customer left out spent as
\* much as the last one included
C3_Witness ==
    /\ Live
    /\ Cardinality(Customers(filtered_df)) > TopN
    /\ Len(page.customer_revenue) = TopN
    /\ \E c \in Customers(filtered_df) :
        /\ \A i \in 1..TopN : page.customer_revenue[i].cust_id # c
        /\ Spent(filtered_df, c) = page.customer_revenue[TopN].total_spent

\* table t, ranked by column col, whose value for each customer is m,
\* breaks ties by customer id
TieBrokenById(t, col, m) ==
    /\ \A i, j \in 1..Len(t) :
        (i < j /\ t[i][col] = t[j][col]) => t[i].cust_id < t[j].cust_id
    /\ \A c \in DOMAIN m \ {t[i].cust_id : i \in 1..Len(t)} :
        \A i \in 1..Len(t) : m[c] = t[i][col] => t[i].cust_id < c

\* C4: in Top Spenders and in Most Loyal, of two customers with an equal
\* measure the one with the smaller customer id comes first, in the order
\* of the table and in who survives the cut to ten.
C4_TiesBrokenByCustomerId ==
    Live =>
        /\ TieBrokenById(page.customer_revenue, "total_spent",
                         [c \in Customers(filtered_df) |->
                            Spent(filtered_df, c)])
        /\ TieBrokenById(page.customer_loyalty, "total_orders",
                         [c \in Customers(filtered_df) |->
                            Orders(filtered_df, c)])

\* C5: the Filtered View has no more rows than the Dataset, and as many
\* exactly when every category and every weekday of the dataset is
\* selected.
C5_FilterRowCount ==
    Live =>
        /\ Len(filtered_df) <= Len(df)
        /\ Len(filtered_df) = Len(df)
            <=> (/\ selected_category = unique_category(df)
                 /\ selected_weekday = unique_weekday(df))

\* every category selected, one weekday left out, and rows left
C5_Witness ==
    /\ Live
    /\ selected_category = unique_category(df)
    /\ selected_weekday # unique_weekday(df)
    /\ Len(filtered_df) > 0
    /\ Len(filtered_df) < Len(df)

\* C6: the Revenue-by-Category measures add up to the total revenue KPI,
\* and Revenue by Category has exactly one record for each category of the
\* view.
C6_RevenueByCategoryAddsUp ==
    Live =>
        LET t == page.rev_cat
        IN  /\ SumField([i \in 1..Len(t) |-> t[i].total_revenue], 1..Len(t))
                = page.total_revenue
            /\ {t[i].category : i \in 1..Len(t)}
                = unique_category(filtered_df)
            /\ Len(t) = Cardinality(unique_category(filtered_df))
            /\ page.total_revenue = SumRows(filtered_df, 1..Len(filtered_df))

\* a view of two categories with different revenues
C6_Witness ==
    /\ Live
    /\ Len(page.rev_cat) = 2
    /\ page.rev_cat[1].total_revenue # page.rev_cat[2].total_revenue
    /\ page.rev_cat[1].total_revenue > 0
    /\ page.rev_cat[2].total_revenue > 0

MonthInView(y, name) ==
    \E i \in 1..Len(filtered_df) :
        /\ filtered_df[i].year = y
        /\ MONTH_MAP[filtered_df[i].month] = name

PanelMonthValid(p, y) ==
    p.rendered =>
        /\ p.selected = AllMonths \/ MonthInView(y, p.selected)
        /\ \A i \in 1..Len(p.daily_rev) :
            /\ p.daily_rev[i].day[1] = y
            /\ p.selected # AllMonths
                => MONTH_MAP[p.daily_rev[i].day[2]] = p.selected

\* C7: in every render pass the month selected for a year is "All Months"
\* or a month that occurs in that year's rows of the current Filtered View,
\* and the Daily Revenue of the year is narrowed to that month only.
C7_SelectedMonthIsInView ==
    Live =>
        /\ PanelMonthValid(page.panel_2022, Year2022)
        /\ PanelMonthValid(page.panel_2023, Year2023)

\* the 2022 selectbox held a month that the current view no longer has
C7_Witness ==
    /\ Live
    /\ page.panel_2022.rendered
    /\ page.panel_2022.held # AllMonths
    /\ ~MonthInView(Year2022, page.panel_2022.held)
    /\ page.panel_2022.selected = AllMonths

\* C8: the source is read and parsed at most once; every pass works on the
\* memoized Dataset, which is the parsed source with its derived calendar
\* fields.
C8_LoadedOnce ==
    /\ reads <= 1
    /\ Live =>
        /\ reads = 1
        /\ cache.hit
        /\ df = cache.value
        /\ df = parse_csv(source)

\* a pass after a change of both filters, on the dataset read once
C8_Witness ==
    /\ Live
    /\ reads = 1
    /\ selected_category # unique_category(df)
    /\ selected_weekday # unique_weekday(df)

SubView(y, held) ==
    {i \in 1..Len(filtered_df) :
        /\ filtered_df[i].year = y
        /\ held # AllMonths => MONTH_MAP[filtered_df[i].month] = held}

DailyRevenueOf(p, y, held) ==
    LET sub  == SubView(y, held)
        days == {filtered_df[i].day : i \in sub}
        t    == p.daily_rev
    IN  IF sub = {}
        THEN p.info /\ ~p.chart
        ELSE /\ ~p.info /\ p.chart
             /\ {t[i].day : i \in 1..Len(t)} = days
             /\ Len(t) = Cardinality(days)
             /\ \A i \in 1..Len(t) - 1 : DayLess(t[i].day, t[i + 1].day)
             /\ \A i \in 1..Len(t) :
                    t[i].daily_revenue
                        = SumRows(filtered_df,
                                  {j \in sub : filtered_df[j].day = t[i].day})

\* C9: for each year and the month selected for it, an empty sub-view of
\* the Filtered View is reported as "no data" with no chart, and a
\* non-empty one yields one record per day with that day's revenue, in
\* ascending order of day.
C9_DailyRevenueOrNoData ==
    Live =>
        /\ DailyRevenueOf(page.panel_2022, Year2022, month_2022)
        /\ DailyRevenueOf(page.panel_2023, Year2023, month_2023)

\* the same, of the passes that reach the Daily Revenue section
DailyRevenueWhenReached ==
    page.finished =>
        /\ DailyRevenueOf(page.panel_2022, Year2022, month_2022)
        /\ DailyRevenueOf(page.panel_2023, Year2023, month_2023)

PanelSum(p) ==
    SumField([i \in 1..Len(p.daily_rev) |-> p.daily_rev[i].daily_revenue],
             1..Len(p.daily_rev))

BothAllMonths ==
    /\ page.panel_2022.selected = AllMonths
    /\ page.panel_2023.selected = AllMonths

\* C10: there is a Daily Revenue view for every year that occurs in the
\* Filtered View, so that with "All Months" selected the daily revenues of
\* all panels add up to the total revenue KPI.
C10_EveryYearCovered ==
    Live =>
        /\ \A i \in 1..Len(filtered_df) :
            filtered_df[i].year \in {Year2022, Year2023}
        /\ BothAllMonths =>
            PanelSum(page.panel_2022) + PanelSum(page.panel_2023)
                = page.total_revenue

YearRevenue(y) ==
    SumRows(filtered_df, RowsOf(filtered_df, "year", y))

OtherYearsRevenue ==
    SumRows(filtered_df,
            {i \in 1..Len(filtered_df) :
                filtered_df[i].year \notin {Year2022, Year2023}})

\* C10, amended: the panels cover the years 2022 and 2023 only.  A panel
\* shows only days of its year and, with "All Months" selected, adds up to
\* the revenue of the rows of its year; the two panels together add up to
\* the total revenue KPI less the revenue of the rows of other years, which
\* are in neither panel; the panels are left out only of a pass over an
\* empty view.
C10_TwoYearsCovered ==
    Live =>
        /\ ~page.finished => Len(filtered_df) = 0
        /\ \A i \in 1..Len(page.panel_2022.daily_rev) :
            page.panel_2022.daily_rev[i].day[1] = Year2022
        /\ \A i \in 1..Len(page.panel_2023.daily_rev) :
            page.panel_2023.daily_rev[i].day[1] = Year2023
        /\ page.panel_2022.selected = AllMonths
            => PanelSum(page.panel_2022) = YearRevenue(Year2022)
        /\ page.panel_2023.selected = AllMonths
            => PanelSum(page.panel_2023) = YearRevenue(Year2023)
        /\ BothAllMonths =>
            PanelSum(page.panel_2022) + PanelSum(page.panel_2023)
                + OtherYearsRevenue = page.total_revenue

\* a view with rows of 2022, of 2023 and of another year, all months shown
C10_Witness ==
    /\ Live
    /\ BothAllMonths
    /\ YearRevenue(Year2022) > 0
    /\ YearRevenue(Year2023) > 0
    /\ YearRevenue(Year2022) + YearRevenue(Year2023) < page.total_revenue

====
